---- MODULE Spec2Model ----
(***************************************************************************)
(* Team-and-registration consistency engine of the Artefa-Fest event       *)
(* registration application (Django).  The store is the three tables       *)
(* Registration, Team and TeamMember of core/models.py plus the usernames  *)
(* of the auth User table; the actions are the view handlers of            *)
(* core/views.py that write to them.                                       *)
(*                                                                         *)
(* Requests that reach a team view are the authorised ones: the caller     *)
(* holds the team's session (team_login) and is not a logged-in ordinary   *)
(* user, or is an administrator.                                           *)
(***************************************************************************)
EXTENDS Integers, Sequences, FiniteSets, TLC

(***************************************************************************)
(* Bounds of the model.                                                    *)
(***************************************************************************)
MaxRegId == 2        \* Registration ids handed out: 1..MaxRegId
MaxTeamId == 1       \* Team ids handed out: 1..MaxTeamId
MaxMembers == 1      \* longest raw team-member list of one submission
MaxAdminEdits == 1   \* administrator edits/deletes of a Registration per run

(***************************************************************************)
(* Values.                                                                 *)
(***************************************************************************)
NoId == 0            \* a NULL foreign key (Registration.team, Team.created_by)
NoEvent == "none"    \* no event supplied
NoCount == -1        \* team_member_count left blank (None)

\* Register numbers as typed by a user; "a1" is stored as "A1" by the views
\* that normalise to upper case.
RawRegs == {"a1", "B2"}

\* str.upper() on the register numbers of the model.
Upper(s) == IF s = "a1" THEN "A1" ELSE s

\* Django's __iexact lookup: equality ignoring case.
iexact(a, b) == Upper(a) = Upper(b)

TeamNames == {"N1"}

\* The event catalogue (read-only to the engine): a technical team event of
\* exactly two, a technical solo event and a non-technical team event with
\* the model's default sizes (min_team_size = max_team_size = 1).
EventCatalog ==
    [E1 |-> [event_type |-> "technical", is_team_event |-> TRUE,
             min_team_size |-> 2, max_team_size |-> 2],
     E2 |-> [event_type |-> "technical", is_team_event |-> FALSE,
             min_team_size |-> 1, max_team_size |-> 1],
     E3 |-> [event_type |-> "non-technical", is_team_event |-> TRUE,
             min_team_size |-> 1, max_team_size |-> 1]]

Events == DOMAIN EventCatalog

EventType(e) == EventCatalog[e].event_type

VARIABLES
    registrations,   \* Registration rows
    teams,           \* Team rows
    members,         \* TeamMember rows, keyed by (team, registration)
    users,           \* usernames of the auth User table
    nextRegId,       \* next Registration id
    nextTeamId,      \* next Team id
    adminEdits,      \* administrator writes done so far
    requests         \* per client, its register request in flight

vars == <<registrations, teams, members, users, nextRegId, nextTeamId,
          adminEdits, requests>>

\* The store as one value: what a handler reads and what it returns.
DB == [regs |-> registrations, teams |-> teams, mems |-> members,
       users |-> users, nextRegId |-> nextRegId, nextTeamId |-> nextTeamId]

(***************************************************************************)
(* Rows.                                                                   *)
(***************************************************************************)
\* A Registration row as Registration.objects.create / form.save build it.
NewRegistration(id, rn, ev, team, tname, tpw, lead) ==
    [id |-> id, register_number |-> rn, event |-> ev, team |-> team,
     team_name |-> tname, team_password |-> tpw, is_team_lead |-> lead]

\* A Team row.
NewTeam(id, name, ev, founder) ==
    [id |-> id, name |-> name, event |-> ev, created_by |-> founder]

\* A TeamMember row; joined_at is "null" unless the caller passes a time.
NewTeamMember(team, reg, status, joined_at) ==
    [team |-> team, registration |-> reg, status |-> status,
     joined_at |-> joined_at]

\* Team.member_count, Team.pending_count, Team.total_count.
member_count(ms, t) ==
    Cardinality({m \in ms : m.team = t /\ m.status = "joined"})

pending_count(ms, t) ==
    Cardinality({m \in ms : m.team = t /\ m.status = "pending"})

\* Faulty variant: pending and declined rows left out of the total.
total_count_joined_only(ms, t) ==
    Cardinality({m \in ms : m.team = t /\ m.status = "joined"})

total_count(ms, t) == Cardinality({m \in ms : m.team = t})

\* What a handler returns: its result and the store it leaves.
Reply(result, db) == [result |-> result, db |-> db]

(***************************************************************************)
(* EligibilityValidator.                                                   *)
(***************************************************************************)
\* Faulty variant: the limit counted per event instead of per event type.
validate_same_event_only(regs, register_number, new_event, exclude_id) ==
    IF \E r \in regs : /\ iexact(r.register_number, register_number)
                       /\ r.id # exclude_id
                       /\ r.event = new_event
    THEN "AlreadyRegisteredSameType"
    ELSE "ok"

\* Faulty variant: the register number compared exactly, not ignoring case.
validate_case_sensitive(regs, register_number, new_event, exclude_id) ==
    IF \E r \in regs : /\ r.register_number = register_number
                       /\ r.id # exclude_id
                       /\ new_event # NoEvent
                       /\ EventType(r.event) = EventType(new_event)
    THEN "AlreadyRegisteredSameType"
    ELSE "ok"

\* Faulty variant: the team-lead test made before the count test.
validate_lead_first(regs, register_number, new_event, exclude_id) ==
    LET rows == {r \in regs : /\ iexact(r.register_number, register_number)
                              /\ r.id # exclude_id
                              /\ new_event # NoEvent
                              /\ EventType(r.event) = EventType(new_event)}
    IN  IF \E r \in rows : r.is_team_lead THEN "LeadConflict"
        ELSE IF rows # {} THEN "AlreadyRegisteredSameType"
        ELSE "ok"

validate_event_registration_limit(regs, register_number, new_event, exclude_id) ==
    LET query == {r \in regs : iexact(r.register_number, register_number)}
        rows == IF exclude_id # NoId
                THEN {r \in query : r.id # exclude_id}
                ELSE query
        technical_registrations ==
            {r \in rows : EventType(r.event) = "technical"}
        non_technical_registrations ==
            {r \in rows : EventType(r.event) = "non-technical"}
        technical_count == Cardinality(technical_registrations)
        non_technical_count == Cardinality(non_technical_registrations)
        is_team_lead_technical ==
            \E r \in technical_registrations : r.is_team_lead
        is_team_lead_non_technical ==
            \E r \in non_technical_registrations : r.is_team_lead
    IN  IF new_event = NoEvent THEN "ok"
        ELSE IF EventType(new_event) = "technical"
        THEN IF technical_count >= 1 THEN "AlreadyRegisteredSameType"
             ELSE IF is_team_lead_technical THEN "LeadConflict"
             ELSE "ok"
        ELSE IF EventType(new_event) = "non-technical"
        THEN IF non_technical_count >= 1 THEN "AlreadyRegisteredSameType"
             ELSE IF is_team_lead_non_technical THEN "LeadConflict"
             ELSE "ok"
        ELSE "ok"

(***************************************************************************)
(* RegistrationCoordinator: the register view.                             *)
(***************************************************************************)
\* A raw team-member entry: a non-record value, a record whose
\* register_number is not text (a JSON number or null), or a record whose
\* register_number is blank or one of the register numbers.
NonDict == "#"

NonText == "!"

MemberEntries == {NonDict, NonText, ""} \cup RawRegs

EntryLists == UNION {[1..n -> MemberEntries] : n \in 0..MaxMembers}

\* The hidden team_members field: a JSON text by its shape.
Payloads ==
    [kind : {"list"}, entries : EntryLists]
    \cup [kind : {"dict", "quoted"},
          entries : {<<e>> : e \in MemberEntries \ {NonDict}}]
    \cup [kind : {"blank", "scalar", "garbage"}, entries : {<<>>}]

BlankPayload == [kind |-> "blank", entries |-> <<>>]

\* team_member_count as typed: blank or a number >= 0 (min_value=0).
TeamMemberCounts == {NoCount} \cup (0..(MaxMembers + 1))

Passwords == {"", "pw"}

\* parse_team_members: a list stays, a record becomes a one-entry list, a
\* single-quoted text is parsed after its quotes are replaced, all else is [].
parse_team_members(payload) ==
    IF payload.kind = "blank" THEN <<>>
    ELSE IF payload.kind = "list" THEN payload.entries
    ELSE IF payload.kind = "dict" THEN <<payload.entries[1]>>
    ELSE IF payload.kind = "quoted" THEN payload.entries
    ELSE <<>>

\* RegistrationForm.clean: the checks that make the form invalid.
FormValid(ev, team_name, password, team_member_count) ==
    ~ ( /\ EventCatalog[ev].is_team_event
        /\ team_name # ""
        /\ \/ password = ""
           \/ /\ team_member_count # NoCount
              /\ team_member_count > EventCatalog[ev].max_team_size
           \/ /\ team_member_count # NoCount
              /\ team_member_count < EventCatalog[ev].min_team_size )

\* create_or_get_user: [ok, users]; with a password it creates the user (or
\* fetches it on IntegrityError), without one it only fetches.
create_or_get_user(us, username, password) ==
    IF password # ""
    THEN IF username \in us
         THEN [ok |-> \E u \in us : iexact(u, username), users |-> us]
         ELSE [ok |-> TRUE, users |-> us \cup {username}]
    ELSE [ok |-> \E u \in us : iexact(u, username), users |-> us]

\* One entry of process_team_members on the running state
\* S = [regs, mems, nextId, outcomes, raised]; raised: an exception has left
\* the loop (.strip() on a register_number that is not text, outside the
\* loop's try).
Outcome(S, o) == [S EXCEPT !.outcomes = Append(@, o)]

AddToTeam(S, r, team, team_name) ==
    IF \E m \in S.mems : m.team = team /\ m.registration = r.id
    THEN Outcome(S, "already")
    ELSE LET added == [S EXCEPT !.mems = @ \cup
                          {NewTeamMember(team, r.id, "pending", "null")}]
             stamped ==
                 IF r.team # team
                 THEN [added EXCEPT !.regs = (@ \ {r}) \cup
                          {[r EXCEPT !.team = team, !.team_name = team_name]}]
                 ELSE added
         IN  Outcome(stamped, "added")

process_entry(S, team, selected_event, entry, lead_rn, team_name) ==
    LET member_reg == Upper(entry)
        existing == {r \in S.regs : /\ iexact(r.register_number, member_reg)
                                    /\ r.event = selected_event}
    IN  IF entry = NonDict THEN Outcome(S, "skipped")
        ELSE IF entry = NonText THEN [S EXCEPT !.raised = TRUE]
        ELSE IF member_reg = "" THEN Outcome(S, "skipped")
        ELSE IF member_reg = Upper(lead_rn) THEN Outcome(S, "skipped")
        ELSE IF validate_event_registration_limit(
                    S.regs, member_reg, selected_event, NoId) # "ok"
        THEN Outcome(S, "skipped")
        ELSE IF existing # {}
        THEN LET r == CHOOSE x \in existing : TRUE
             IN  IF r.team # NoId /\ r.team # team
                 THEN Outcome(S, "skipped")
                 ELSE AddToTeam(S, r, team, team_name)
        ELSE LET r == NewRegistration(S.nextId, member_reg, selected_event,
                                      team, team_name, team, FALSE)
             IN  AddToTeam([S EXCEPT !.regs = @ \cup {r},
                                     !.nextId = @ + 1],
                           r, team, team_name)

RECURSIVE process_team_members(_, _, _, _, _, _)
process_team_members(S, team, selected_event, data, lead_rn, team_name) ==
    IF data = <<>> \/ S.raised THEN S
    ELSE process_team_members(
             process_entry(S, team, selected_event, Head(data), lead_rn,
                           team_name),
             team, selected_event, Tail(data), lead_rn, team_name)

\* Faulty variant: the founder's TeamMember left at the default status.
team_founded_pending(db, rn, ev, team_name) ==
    [db EXCEPT
       !.regs = @ \cup {NewRegistration(db.nextRegId, rn, ev, db.nextTeamId,
                                        team_name, db.nextTeamId, TRUE)},
       !.teams = @ \cup {NewTeam(db.nextTeamId, team_name, ev, db.nextRegId)},
       !.mems = @ \cup {NewTeamMember(db.nextTeamId, db.nextRegId, "pending",
                                      "null")},
       !.nextRegId = @ + 1,
       !.nextTeamId = @ + 1]

\* Faulty variant: the founder's Registration left without the lead flag.
team_founded_unflagged(db, rn, ev, team_name) ==
    [db EXCEPT
       !.regs = @ \cup {NewRegistration(db.nextRegId, rn, ev, db.nextTeamId,
                                        team_name, db.nextTeamId, FALSE)},
       !.teams = @ \cup {NewTeam(db.nextTeamId, team_name, ev, db.nextRegId)},
       !.mems = @ \cup {NewTeamMember(db.nextTeamId, db.nextRegId, "joined",
                                      "null")},
       !.nextRegId = @ + 1,
       !.nextTeamId = @ + 1]

\* The Team of a team-creating submission as register leaves it before
\* process_team_members runs: the Registration saved as the team's lead,
\* the Team created by it and the founder's TeamMember.
team_founded(db, rn, ev, team_name) ==
    LET rid == db.nextRegId
        tid == db.nextTeamId
    IN  [db EXCEPT
           !.regs = @ \cup {NewRegistration(rid, rn, ev, tid, team_name,
                                            tid, TRUE)},
           !.teams = @ \cup {NewTeam(tid, team_name, ev, rid)},
           !.mems = @ \cup {NewTeamMember(tid, rid, "joined", "null")},
           !.nextRegId = rid + 1,
           !.nextTeamId = tid + 1]

\* Faulty variant: the block on a table without the (register_number, event)
\* uniqueness constraint.
register_commit_unconstrained(db, rn, ev, team_name, data) ==
    [result |-> "ok",
     db |-> [db EXCEPT
               !.regs = @ \cup {NewRegistration(db.nextRegId, rn, ev, NoId,
                                                team_name, NoId, FALSE)},
               !.nextRegId = @ + 1],
     outcomes |-> <<>>]

\* Faulty variant of register_commit: no transaction around the block, so
\* the Registration saved before a failing Team insert or a failing member
\* loop stays.
register_commit_not_atomic(db, rn, ev, team_name, data) ==
    LET creating == EventCatalog[ev].is_team_event /\ team_name # ""
        saved == [db EXCEPT
                    !.regs = @ \cup
                        {NewRegistration(db.nextRegId, rn, ev, NoId,
                                         team_name, NoId, FALSE)},
                    !.nextRegId = @ + 1]
        founded == team_founded(db, rn, ev, team_name)
        S0 == [regs |-> founded.regs, mems |-> founded.mems,
               nextId |-> founded.nextRegId, outcomes |-> <<>>,
               raised |-> FALSE]
        S1 == process_team_members(S0, db.nextTeamId, ev, data, rn, team_name)
    IN  IF \E r \in db.regs : r.register_number = rn /\ r.event = ev
        THEN [result |-> "DuplicateForEvent", db |-> db, outcomes |-> <<>>]
        ELSE IF ~creating
        THEN [result |-> "ok", db |-> saved, outcomes |-> <<>>]
        ELSE IF \E t \in db.teams : t.name = team_name /\ t.event = ev
        THEN [result |-> "DuplicateForEvent", db |-> saved, outcomes |-> <<>>]
        ELSE IF S1.raised
        THEN [result |-> "Error", db |-> saved, outcomes |-> S1.outcomes]
        ELSE [result |-> "ok",
              db |-> [founded EXCEPT !.regs = S1.regs, !.mems = S1.mems,
                                     !.nextRegId = S1.nextId],
              outcomes |-> S1.outcomes]

\* Faulty variant of register_commit: the eligibility check is made again
\* on the rows as they are at commit, as under a serializable transaction.
register_commit_serialized(db, rn, ev, team_name, data) ==
    LET creating == EventCatalog[ev].is_team_event /\ team_name # ""
        founded == team_founded(db, rn, ev, team_name)
        S0 == [regs |-> founded.regs, mems |-> founded.mems,
               nextId |-> founded.nextRegId, outcomes |-> <<>>,
               raised |-> FALSE]
        S1 == process_team_members(S0, db.nextTeamId, ev, data, rn, team_name)
    IN  IF validate_event_registration_limit(db.regs, rn, ev, NoId) # "ok"
        THEN [result |-> "AlreadyRegisteredSameType", db |-> db,
              outcomes |-> <<>>]
        ELSE IF \E r \in db.regs : r.register_number = rn /\ r.event = ev
        THEN [result |-> "DuplicateForEvent", db |-> db, outcomes |-> <<>>]
        ELSE IF ~creating
        THEN [result |-> "ok",
              db |-> [db EXCEPT
                        !.regs = @ \cup
                            {NewRegistration(db.nextRegId, rn, ev, NoId,
                                             team_name, NoId, FALSE)},
                        !.nextRegId = @ + 1],
              outcomes |-> <<>>]
        ELSE IF \E t \in db.teams : t.name = team_name /\ t.event = ev
        THEN [result |-> "DuplicateForEvent", db |-> db, outcomes |-> <<>>]
        ELSE IF S1.raised
        THEN [result |-> "Error", db |-> db, outcomes |-> S1.outcomes]
        ELSE [result |-> "ok",
              db |-> [founded EXCEPT !.regs = S1.regs, !.mems = S1.mems,
                                     !.nextRegId = S1.nextId],
              outcomes |-> S1.outcomes]

\* The atomic block of register after the eligibility check has passed, on
\* the store db: the Registration is saved and, for a team-creating
\* submission, the Team, the founder's TeamMember and the invited members.
\* A uniqueness violation, of (register_number, event) or of (name, event),
\* rolls the block back; the view answers both with its "this register number
\* is already registered" message, the result "DuplicateForEvent".  Any other
\* exception rolls it back too, with the result "Error".
register_commit(db, rn, ev, team_name, data) ==
    LET creating == EventCatalog[ev].is_team_event /\ team_name # ""
        founded == team_founded(db, rn, ev, team_name)
        S0 == [regs |-> founded.regs, mems |-> founded.mems,
               nextId |-> founded.nextRegId, outcomes |-> <<>>,
               raised |-> FALSE]
        S1 == process_team_members(S0, db.nextTeamId, ev, data, rn, team_name)
    IN  IF \E r \in db.regs : r.register_number = rn /\ r.event = ev
        THEN [result |-> "DuplicateForEvent", db |-> db, outcomes |-> <<>>]
        ELSE IF ~creating
        THEN [result |-> "ok",
              db |-> [db EXCEPT
                        !.regs = @ \cup
                            {NewRegistration(db.nextRegId, rn, ev, NoId,
                                             team_name, NoId, FALSE)},
                        !.nextRegId = @ + 1],
              outcomes |-> <<>>]
        ELSE IF \E t \in db.teams : t.name = team_name /\ t.event = ev
        THEN [result |-> "DuplicateForEvent", db |-> db, outcomes |-> <<>>]
        ELSE IF S1.raised
        THEN [result |-> "Error", db |-> db, outcomes |-> S1.outcomes]
        ELSE [result |-> "ok",
              db |-> [founded EXCEPT !.regs = S1.regs, !.mems = S1.mems,
                                     !.nextRegId = S1.nextId],
              outcomes |-> S1.outcomes]

\* register on a valid form, handled with no other request in between.
register_valid(db, raw_rn, ev, team_name, password, data) ==
    LET register_number == Upper(raw_rn)
        u == create_or_get_user(db.users, register_number, password)
        withUser == [db EXCEPT !.users = u.users]
        verdict == validate_event_registration_limit(
                       db.regs, register_number, ev, NoId)
    IN  IF \E r \in db.regs : /\ iexact(r.register_number, register_number)
                              /\ r.event = ev
        THEN [result |-> "DuplicateForEvent", db |-> db, outcomes |-> <<>>]
        ELSE IF ~u.ok
        THEN [result |-> "IdentityError", db |-> db, outcomes |-> <<>>]
        ELSE IF verdict # "ok"
        THEN [result |-> verdict, db |-> withUser, outcomes |-> <<>>]
        ELSE register_commit(withUser, register_number, ev, team_name, data)

\* register: the form is validated first.
register(db, raw_rn, ev, team_name, password, team_member_count, payload) ==
    IF ~FormValid(ev, team_name, password, team_member_count)
    THEN [result |-> "FormInvalid", db |-> db, outcomes |-> <<>>]
    ELSE register_valid(db, raw_rn, ev, team_name, password,
                        parse_team_members(payload))

(***************************************************************************)
(* TeamLifecycle: the team views.                                          *)
(***************************************************************************)
\* The fields of the Registration model that a queryset filter can name.
RegistrationFields ==
    {"id", "register_number", "full_name", "year", "department",
     "phone_number", "email", "is_verified", "event", "registered_at",
     "team", "team_name", "team_members", "team_password", "is_team_lead",
     "created_teams", "team_memberships"}

\* Registration.objects.filter(user=request.user, event=ev): the rows, or a
\* FieldError when the model has no field of that name.
registrations_of_user(regs, username, ev) ==
    IF "user" \in RegistrationFields
    THEN [ok |-> TRUE,
          rows |-> {r \in regs : /\ iexact(r.register_number, username)
                                 /\ r.event = ev}]
    ELSE [ok |-> FALSE, rows |-> {}]

TeamById(db, t) == CHOOSE x \in db.teams : x.id = t

RegById(db, id) == CHOOSE x \in db.regs : x.id = id

\* queryset.first() under Meta.ordering = ['-registered_at']: the newest row.
first(rows) == CHOOSE r \in rows : \A o \in rows : o.id <= r.id

\* create_team: an administrator has no Registration (None), any other user's
\* Registration is looked up by its user.  The Team row is created inside the
\* atomic block, which the exception raised at the log line rolls back.
create_team(db, ev, is_admin, username, team_name) ==
    LET lookup == registrations_of_user(db.regs, username, ev)
        registration == IF is_admin \/ lookup.rows = {} THEN NoId
                        ELSE first(lookup.rows).id
        verdict == IF registration = NoId THEN "ok"
                   ELSE validate_event_registration_limit(
                            db.regs, RegById(db, registration).register_number,
                            ev, NoId)
        tid == db.nextTeamId
        lead == RegById(db, registration)
    IN  IF ~is_admin /\ ~lookup.ok THEN Reply("FieldError", db)
        ELSE IF ~is_admin /\ lookup.rows = {} THEN Reply("NotRegistered", db)
        ELSE IF ~EventCatalog[ev].is_team_event THEN Reply("NotTeamEvent", db)
        ELSE IF team_name = "" THEN Reply("TeamNameRequired", db)
        ELSE IF \E t \in db.teams : t.name = team_name /\ t.event = ev
        THEN Reply("TeamNameTaken", db)
        ELSE IF verdict # "ok" THEN Reply(verdict, db)
        ELSE IF registration = NoId THEN Reply("Error", db)
        ELSE Reply("ok",
                 [db EXCEPT
                    !.teams = @ \cup {NewTeam(tid, team_name, ev, registration)},
                    !.mems = @ \cup
                        {NewTeamMember(tid, registration, "joined", "null")},
                    !.regs = (@ \ {lead}) \cup
                        {[lead EXCEPT !.team = tid, !.team_name = team_name,
                                      !.team_password = tid,
                                      !.is_team_lead = TRUE]},
                    !.nextTeamId = tid + 1])

\* Faulty variant of add_member: the new Registration is stored without its
\* team linkage.
add_member_unlinked(db, t, raw_rn, fields_ok) ==
    LET team == TeamById(db, t)
        register_number == Upper(raw_rn)
        registration == NewRegistration(db.nextRegId, register_number,
                                        team.event, NoId, "", NoId, FALSE)
    IN  IF ~fields_ok \/ register_number = ""
        THEN Reply("FieldsRequired", db)
        ELSE IF total_count(db.mems, t) >= EventCatalog[team.event].max_team_size
        THEN Reply("TeamFull", db)
        ELSE IF validate_event_registration_limit(
                    db.regs, register_number, team.event, NoId) # "ok"
        THEN Reply("AlreadyRegisteredSameType", db)
        ELSE Reply("ok",
                 [db EXCEPT
                    !.regs = @ \cup {registration},
                    !.nextRegId = @ + 1,
                    !.mems = @ \cup
                        {NewTeamMember(t, registration.id, "pending", "null")}])

\* team_add_members, action add_member.  fields_ok: the other required
\* fields (name, email, phone, department, year) are all filled in.
add_member(db, t, raw_rn, fields_ok) ==
    LET team == TeamById(db, t)
        register_number == Upper(raw_rn)
        verdict == validate_event_registration_limit(
                       db.regs, register_number, team.event, NoId)
        matching == {r \in db.regs : /\ r.register_number = register_number
                                     /\ r.event = team.event}
        created == matching = {}
        registration ==
            IF created
            THEN NewRegistration(db.nextRegId, register_number, team.event,
                                 t, team.name, t, FALSE)
            ELSE [first(matching) EXCEPT !.team = t, !.team_name = team.name,
                                         !.team_password = t]
        regs2 == IF created THEN db.regs \cup {registration}
                 ELSE (db.regs \ {first(matching)}) \cup {registration}
    IN  IF ~fields_ok \/ register_number = ""
        THEN Reply("FieldsRequired", db)
        ELSE IF total_count(db.mems, t) >= EventCatalog[team.event].max_team_size
        THEN Reply("TeamFull", db)
        ELSE IF verdict # "ok" THEN Reply(verdict, db)
        ELSE IF /\ matching # {}
                /\ \E m \in db.mems : /\ m.team = t
                                      /\ m.registration = first(matching).id
        THEN Reply("DuplicateMember", db)
        ELSE IF total_count(db.mems, t) >= EventCatalog[team.event].max_team_size
        THEN Reply("TeamFull", db)
        ELSE Reply("ok",
                 [db EXCEPT
                    !.regs = regs2,
                    !.nextRegId = IF created THEN @ + 1 ELSE @,
                    !.mems = @ \cup
                        {NewTeamMember(t, registration.id, "pending", "null")}])

\* team_add_members and team_dashboard, action remove_member.
remove_member(db, t, reg) ==
    LET team == TeamById(db, t)
        found == {m \in db.mems : m.team = t /\ m.registration = reg}
    IN  IF found = {} THEN Reply("NotFound", db)
        ELSE IF reg = team.created_by THEN Reply("CannotRemoveLead", db)
        ELSE Reply("ok", [db EXCEPT !.mems = @ \ found])

\* The remove_team_member view.
remove_team_member(db, t, reg) ==
    LET found == {m \in db.mems : m.team = t /\ m.registration = reg}
    IN  IF found = {} THEN Reply("NotFound", db)
        ELSE Reply("ok", [db EXCEPT !.mems = @ \ found])

\* Faulty variant of finalize: the minimum is compared with the count of
\* all rows, pending ones included.
finalize_counting_pending(db, t) ==
    LET team == TeamById(db, t)
    IN  IF total_count(db.mems, t) < EventCatalog[team.event].min_team_size
        THEN Reply("BelowMinimum", db)
        ELSE IF total_count(db.mems, t) > EventCatalog[team.event].max_team_size
        THEN Reply("AboveMaximum", db)
        ELSE Reply("ok", db)

\* team_add_members, action finalize.
finalize(db, t) ==
    LET team == TeamById(db, t)
    IN  IF member_count(db.mems, t) < EventCatalog[team.event].min_team_size
        THEN Reply("BelowMinimum", db)
        ELSE IF total_count(db.mems, t) > EventCatalog[team.event].max_team_size
        THEN Reply("AboveMaximum", db)
        ELSE Reply("ok", db)

\* The add_team_member view (invite by register number alone).
add_team_member(db, t, raw_rn) ==
    LET team == TeamById(db, t)
        register_number == Upper(raw_rn)
        verdict == validate_event_registration_limit(
                       db.regs, register_number, team.event, NoId)
        matching == {r \in db.regs : r.register_number = register_number}
    IN  IF total_count(db.mems, t) >= EventCatalog[team.event].max_team_size
        THEN Reply("TeamFull", db)
        ELSE IF register_number = "" THEN Reply("FieldsRequired", db)
        ELSE IF verdict # "ok" THEN Reply(verdict, db)
        ELSE IF matching = {} THEN Reply("NotFound", db)
        ELSE IF first(matching).event # team.event
        THEN Reply("NotRegisteredForEvent", db)
        ELSE IF \E m \in db.mems : /\ m.team = t
                                   /\ m.registration = first(matching).id
        THEN Reply("DuplicateMember", db)
        ELSE Reply("ok",
                 [db EXCEPT !.mems = @ \cup
                    {NewTeamMember(t, first(matching).id, "pending", "null")}])

StatusChoices == {"pending", "joined", "declined"}

\* Faulty variant of edit_team_member: a changed register number is checked
\* for a duplicate in the team's event only, not by the validator.
edit_team_member_unvalidated(db, t, reg, raw_rn, status, fields_ok) ==
    LET team == TeamById(db, t)
        team_member == CHOOSE m \in db.mems :
                           m.team = t /\ m.registration = reg
        registration == RegById(db, reg)
        register_number == Upper(raw_rn)
        saved == [registration EXCEPT !.register_number = register_number]
        mems2 == IF status \in {"pending", "joined", "declined"}
                 THEN (db.mems \ {team_member}) \cup
                      {[team_member EXCEPT !.status = status]}
                 ELSE db.mems
    IN  IF ~fields_ok \/ register_number = ""
        THEN Reply("FieldsRequired", db)
        ELSE IF \E r \in db.regs : /\ r.id # reg
                                   /\ r.register_number = register_number
                                   /\ r.event = team.event
        THEN Reply("DuplicateForEvent", db)
        ELSE Reply("ok", [db EXCEPT
                            !.regs = (@ \ {registration}) \cup {saved},
                            !.mems = mems2])

\* edit_team_member.  status "" is a form that sends no status.
edit_team_member(db, t, reg, raw_rn, status, fields_ok) ==
    LET team == TeamById(db, t)
        team_member == CHOOSE m \in db.mems :
                           m.team = t /\ m.registration = reg
        registration == RegById(db, reg)
        register_number == Upper(raw_rn)
        changed == register_number # registration.register_number
        duplicate_check ==
            {r \in db.regs : /\ r.register_number = register_number
                             /\ r.event = team.event
                             /\ r.id # reg}
        verdict == validate_event_registration_limit(
                       db.regs, register_number, team.event, reg)
        saved == [registration EXCEPT !.register_number = register_number]
        regs2 == (db.regs \ {registration}) \cup {saved}
        mems2 == IF status \in StatusChoices
                 THEN (db.mems \ {team_member}) \cup
                      {[team_member EXCEPT !.status = status]}
                 ELSE db.mems
    IN  IF ~fields_ok \/ register_number = ""
        THEN Reply("FieldsRequired", db)
        ELSE IF changed /\ duplicate_check # {}
        THEN Reply("DuplicateForEvent", db)
        ELSE IF changed /\ verdict # "ok" THEN Reply(verdict, db)
        ELSE IF \E r \in db.regs : /\ r.id # reg
                                   /\ r.register_number = register_number
                                   /\ r.event = registration.event
        THEN Reply("IntegrityError", db)
        ELSE Reply("ok", [db EXCEPT !.regs = regs2, !.mems = mems2])

\* accept_team_invite: the caller's Registrations are looked up by user.
accept_team_invite(db, t, username) ==
    LET team == TeamById(db, t)
        user_registrations == registrations_of_user(db.regs, username,
                                                    team.event)
        mine == {m \in db.mems :
                    /\ m.team = t
                    /\ \E r \in user_registrations.rows : r.id = m.registration}
        team_member == CHOOSE m \in mine : TRUE
    IN  IF ~user_registrations.ok THEN Reply("Error", db)
        ELSE IF mine = {} THEN Reply("NoInvitation", db)
        ELSE IF team_member.status = "joined" THEN Reply("AlreadyMember", db)
        ELSE IF team_member.status = "declined" THEN Reply("Declined", db)
        ELSE Reply("ok",
                 [db EXCEPT !.mems = (@ \ {team_member}) \cup
                    {[team_member EXCEPT !.status = "joined",
                                         !.joined_at = "now"]}])

\* decline_team_invite.
decline_team_invite(db, t, username) ==
    LET team == TeamById(db, t)
        user_registrations == registrations_of_user(db.regs, username,
                                                    team.event)
        mine == {m \in db.mems :
                    /\ m.team = t
                    /\ \E r \in user_registrations.rows : r.id = m.registration}
        team_member == CHOOSE m \in mine : TRUE
    IN  IF ~user_registrations.ok THEN Reply("Error", db)
        ELSE IF mine = {} THEN Reply("NoInvitation", db)
        ELSE IF team_member.status # "pending" THEN Reply("NotPending", db)
        ELSE Reply("ok",
                 [db EXCEPT !.mems = (@ \ {team_member}) \cup
                    {[team_member EXCEPT !.status = "declined"]}])

\* team_dashboard, action approve_member.
approve_member(db, t, reg) ==
    LET found == {m \in db.mems : m.team = t /\ m.registration = reg}
    IN  IF found = {} THEN Reply("NotFound", db)
        ELSE Reply("ok",
                 [db EXCEPT !.mems = (@ \ found) \cup
                    {[m EXCEPT !.status = "joined", !.joined_at = "now"] :
                        m \in found}])

\* team_dashboard, action change_status.
change_status(db, t, reg, new_status) ==
    LET found == {m \in db.mems : m.team = t /\ m.registration = reg}
    IN  IF found = {} THEN Reply("NotFound", db)
        ELSE IF new_status \notin StatusChoices THEN Reply("Ignored", db)
        ELSE Reply("ok",
                 [db EXCEPT !.mems = (@ \ found) \cup
                    {[m EXCEPT !.status = new_status] : m \in found}])


\* team_dashboard, action remove_member.
team_dashboard_remove_member(db, t, reg) ==
    LET team == TeamById(db, t)
        found == {m \in db.mems : m.team = t /\ m.registration = reg}
    IN  IF found = {} THEN Reply("NotFound", db)
        ELSE IF reg = team.created_by THEN Reply("CannotRemoveLead", db)
        ELSE Reply("ok", [db EXCEPT !.mems = @ \ found])

(***************************************************************************)
(* The administrator's views on a Registration.                            *)
(***************************************************************************)
\* What an administrator types as a register number: stored stripped, in the
\* case it was typed in.
AdminRegs == RawRegs \cup {Upper(r) : r \in RawRegs}

\* edit_registration: the fields are overwritten and saved; the save fails
\* on the (register_number, event) uniqueness alone.
edit_registration(db, id, register_number, ev, is_team_lead) ==
    LET registration == RegById(db, id)
        saved == [registration EXCEPT !.register_number = register_number,
                                      !.event = ev,
                                      !.is_team_lead = is_team_lead]
    IN  IF \E r \in db.regs : /\ r.id # id
                              /\ r.register_number = register_number
                              /\ r.event = ev
        THEN Reply("IntegrityError", db)
        ELSE Reply("ok", [db EXCEPT !.regs = (@ \ {registration}) \cup {saved}])

\* delete_registration: Team.created_by and TeamMember.registration cascade,
\* TeamMember.team cascades from a deleted Team, Registration.team is set to
\* null.
delete_registration(db, id) ==
    LET gone == {t.id : t \in {x \in db.teams : x.created_by = id}}
    IN  Reply("ok",
          [db EXCEPT
             !.regs = {IF r.team \in gone THEN [r EXCEPT !.team = NoId] ELSE r :
                          r \in {x \in @ : x.id # id}},
             !.teams = {t \in @ : t.id \notin gone},
             !.mems = {m \in @ : m.registration # id /\ m.team \notin gone}])

(***************************************************************************)
(* Actions: a handler applied to the store.                                *)
(***************************************************************************)
\* The handler's reply becomes the store; ids stay within the bounds.
Apply(reply) ==
    /\ reply.db.nextRegId <= MaxRegId + 1
    /\ reply.db.nextTeamId <= MaxTeamId + 1
    /\ registrations' = reply.db.regs
    /\ teams' = reply.db.teams
    /\ members' = reply.db.mems
    /\ users' = reply.db.users
    /\ nextRegId' = reply.db.nextRegId
    /\ nextTeamId' = reply.db.nextTeamId

\* The team name is typed on team events only.
TeamNameInputs(ev) ==
    IF EventCatalog[ev].is_team_event THEN {""} \cup TeamNames ELSE {""}

\* The member lists that reach process_team_members.
ParsedLists == {parse_team_members(p) : p \in Payloads}

\* Every submission (raw_rn, ev, team_name, password, team_member_count,
\* payload): an invalid form whatever the payload, or a valid one, whose
\* effect depends on the payload through parse_team_members alone and on
\* team_member_count not at all.
Register ==
    \E raw_rn \in RawRegs, ev \in Events, password \in Passwords :
      \E team_name \in TeamNameInputs(ev) :
        /\ UNCHANGED <<adminEdits, requests>>
        /\ \/ /\ \E c \in TeamMemberCounts :
                     ~FormValid(ev, team_name, password, c)
              /\ Apply(register(DB, raw_rn, ev, team_name, password,
                                CHOOSE c \in TeamMemberCounts :
                                    ~FormValid(ev, team_name, password, c),
                                BlankPayload))
           \/ /\ \E c \in TeamMemberCounts :
                     FormValid(ev, team_name, password, c)
              /\ \E data \in IF EventCatalog[ev].is_team_event
                                /\ team_name # ""
                             THEN ParsedLists ELSE {<<>>} :
                     Apply(register_valid(DB, raw_rn, ev, team_name,
                                          password, data))

TeamIds == {t.id : t \in teams}

MemberRegs(t) == {m.registration : m \in {x \in members : x.team = t}}

CreateTeam ==
    \E ev \in Events, is_admin \in BOOLEAN, username \in RawRegs :
      \E team_name \in {""} \cup TeamNames :
        /\ Apply(create_team(DB, ev, is_admin, username, team_name))
        /\ UNCHANGED <<adminEdits, requests>>

AddMember ==
    \E t \in TeamIds, raw_rn \in {""} \cup RawRegs, fields_ok \in BOOLEAN :
        /\ Apply(add_member(DB, t, raw_rn, fields_ok))
        /\ UNCHANGED <<adminEdits, requests>>

RemoveMember ==
    \E t \in TeamIds, reg \in 1..MaxRegId :
        /\ Apply(remove_member(DB, t, reg))
        /\ UNCHANGED <<adminEdits, requests>>

Finalize ==
    \E t \in TeamIds :
        /\ Apply(finalize(DB, t))
        /\ UNCHANGED <<adminEdits, requests>>

AddTeamMember ==
    \E t \in TeamIds, raw_rn \in {""} \cup RawRegs :
        /\ Apply(add_team_member(DB, t, raw_rn))
        /\ UNCHANGED <<adminEdits, requests>>

EditTeamMember ==
    \E t \in TeamIds, raw_rn \in {""} \cup RawRegs, fields_ok \in BOOLEAN :
      \E reg \in MemberRegs(t), status \in {""} \cup StatusChoices :
        /\ Apply(edit_team_member(DB, t, reg, raw_rn, status, fields_ok))
        /\ UNCHANGED <<adminEdits, requests>>

RemoveTeamMember ==
    \E t \in TeamIds :
      \E reg \in MemberRegs(t) :
        /\ Apply(remove_team_member(DB, t, reg))
        /\ UNCHANGED <<adminEdits, requests>>

AcceptTeamInvite ==
    \E t \in TeamIds, username \in RawRegs :
        /\ Apply(accept_team_invite(DB, t, username))
        /\ UNCHANGED <<adminEdits, requests>>

DeclineTeamInvite ==
    \E t \in TeamIds, username \in RawRegs :
        /\ Apply(decline_team_invite(DB, t, username))
        /\ UNCHANGED <<adminEdits, requests>>

ApproveMember ==
    \E t \in TeamIds, reg \in 1..MaxRegId :
        /\ Apply(approve_member(DB, t, reg))
        /\ UNCHANGED <<adminEdits, requests>>

DashboardRemoveMember ==
    \E t \in TeamIds, reg \in 1..MaxRegId :
        /\ Apply(team_dashboard_remove_member(DB, t, reg))
        /\ UNCHANGED <<adminEdits, requests>>

ChangeStatus ==
    \E t \in TeamIds, reg \in 1..MaxRegId :
      \E new_status \in {""} \cup StatusChoices :
        /\ Apply(change_status(DB, t, reg, new_status))
        /\ UNCHANGED <<adminEdits, requests>>

\* The edit form comes prefilled; the administrator retypes the register
\* number, picks the event and ticks the lead box.
EditRegistration ==
    \E r \in registrations, register_number \in AdminRegs :
      \E ev \in Events, is_team_lead \in BOOLEAN :
        /\ adminEdits < MaxAdminEdits
        /\ Apply(edit_registration(DB, r.id, register_number, ev,
                                   is_team_lead))
        /\ adminEdits' = adminEdits + 1
        /\ UNCHANGED requests

DeleteRegistration ==
    \E r \in registrations :
        /\ adminEdits < MaxAdminEdits
        /\ Apply(delete_registration(DB, r.id))
        /\ adminEdits' = adminEdits + 1
        /\ UNCHANGED requests

(***************************************************************************)
(* register as the database sees it: the statements of one request, with   *)
(* those of another request in between.  The atomic block's writes become  *)
(* visible together at its commit; until then the request has only read.   *)
(***************************************************************************)
Clients == {"c1", "c2"}

Idle == [pc |-> "idle", register_number |-> "", event |-> NoEvent,
         team_name |-> "", password |-> ""]

\* form.is_valid() and the existing_reg_for_same_event query.  A concurrent
\* submission invites no members: its team_members field is blank.
RegisterCheck ==
    \E c \in Clients, raw_rn \in RawRegs, ev \in Events :
      \E team_name \in TeamNameInputs(ev), password \in Passwords :
        /\ requests[c].pc = "idle"
        /\ \E n \in TeamMemberCounts : FormValid(ev, team_name, password, n)
        /\ requests' =
               IF \E r \in registrations :
                      /\ iexact(r.register_number, Upper(raw_rn))
                      /\ r.event = ev
               THEN requests
               ELSE [requests EXCEPT ![c] =
                        [pc |-> "checked", register_number |-> Upper(raw_rn),
                         event |-> ev, team_name |-> team_name,
                         password |-> password]]
        /\ UNCHANGED <<registrations, teams, members, users, nextRegId,
                       nextTeamId, adminEdits>>

\* create_or_get_user, committed on its own.
RegisterUser ==
    \E c \in Clients :
        LET q == requests[c]
            u == create_or_get_user(users, q.register_number, q.password)
        IN  /\ q.pc = "checked"
            /\ users' = u.users
            /\ requests' = [requests EXCEPT ![c] =
                               IF u.ok THEN [q EXCEPT !.pc = "user"] ELSE Idle]
            /\ UNCHANGED <<registrations, teams, members, nextRegId,
                           nextTeamId, adminEdits>>

\* The eligibility check that opens the atomic block.
RegisterValidate ==
    \E c \in Clients :
        LET q == requests[c]
            verdict == validate_event_registration_limit(
                           registrations, q.register_number, q.event, NoId)
        IN  /\ q.pc = "user"
            /\ requests' = [requests EXCEPT ![c] =
                               IF verdict = "ok"
                               THEN [q EXCEPT !.pc = "validated"] ELSE Idle]
            /\ UNCHANGED <<registrations, teams, members, users, nextRegId,
                           nextTeamId, adminEdits>>

\* The writes of the atomic block and its commit, or its rollback.
RegisterCommit ==
    \E c \in Clients :
        LET q == requests[c]
        IN  /\ q.pc = "validated"
            /\ Apply(register_commit(DB, q.register_number, q.event,
                                     q.team_name,
                                     parse_team_members(BlankPayload)))
            /\ requests' = [requests EXCEPT ![c] = Idle]
            /\ UNCHANGED adminEdits

Init ==
    /\ registrations = {}
    /\ teams = {}
    /\ members = {}
    /\ users = {}
    /\ nextRegId = 1
    /\ nextTeamId = 1
    /\ adminEdits = 0
    /\ requests = [p \in Clients |-> Idle]

\* The validated operations: everything but the administrator's views.
Validated ==
    \/ Register
    \/ CreateTeam
    \/ AddMember
    \/ RemoveMember
    \/ Finalize
    \/ AddTeamMember
    \/ EditTeamMember
    \/ RemoveTeamMember
    \/ AcceptTeamInvite
    \/ DeclineTeamInvite
    \/ ApproveMember
    \/ DashboardRemoveMember
    \/ ChangeStatus

Next ==
    \/ Validated
    \/ EditRegistration
    \/ DeleteRegistration

Spec == Init /\ [][Next]_vars

\* The validated operations alone, one at a time.
SpecValidated == Init /\ [][Validated]_vars

\* Concurrent submissions.
Concurrent ==
    \/ RegisterCheck
    \/ RegisterUser
    \/ RegisterValidate
    \/ RegisterCommit

SpecConcurrent == Init /\ [][Concurrent]_vars

(***************************************************************************)
(* team_add_members (add_member) and edit_team_member as the database sees *)
(* them: neither view opens a transaction, so each save is committed on    *)
(* its own and the statements of another request may come in between.      *)
(***************************************************************************)
\* Register numbers typed into the member forms: a third person besides the
\* two who register.
Invitees == RawRegs \cup {"C3"}

\* Registration ids up to which the member forms may create rows.
MaxInvitedRegId == MaxRegId + 1

\* A team-creating register without invited members, handled in one piece.
FoundTeam ==
    \E raw_rn \in RawRegs, ev \in Events, team_name \in TeamNames :
        /\ EventCatalog[ev].is_team_event
        /\ Apply(register_valid(DB, raw_rn, ev, team_name, "pw", <<>>))
        /\ UNCHANGED <<adminEdits, requests>>

\* add_member up to its last check: the capacity test, the validator, the
\* already-in-team test and the second capacity test, all reads.
AddMemberCheck ==
    \E c \in Clients, t \in TeamIds, raw_rn \in Invitees :
        LET team == TeamById(DB, t)
            register_number == Upper(raw_rn)
            existing_member ==
                {r \in registrations : /\ r.register_number = register_number
                                       /\ r.event = team.event}
            passes ==
                /\ total_count(members, t) <
                       EventCatalog[team.event].max_team_size
                /\ validate_event_registration_limit(
                       registrations, register_number, team.event, NoId) = "ok"
                /\ ~\E r \in existing_member, m \in members :
                       m.team = t /\ m.registration = r.id
        IN  /\ requests[c].pc = "idle"
            /\ requests' =
                   IF passes
                   THEN [requests EXCEPT ![c] =
                            [pc |-> "add_checked", team |-> t,
                             register_number |-> register_number,
                             registration |-> NoId, status |-> ""]]
                   ELSE requests
            /\ UNCHANGED <<registrations, teams, members, users, nextRegId,
                           nextTeamId, adminEdits>>

\* Registration.objects.get_or_create and the re-stamping of a row that
\* existed: the first write of add_member.
AddMemberRegistration ==
    \E c \in Clients :
        LET q == requests[c]
            team == TeamById(DB, q.team)
            matching ==
                {r \in registrations : /\ r.register_number = q.register_number
                                       /\ r.event = team.event}
            created == matching = {}
            registration ==
                IF created
                THEN NewRegistration(nextRegId, q.register_number, team.event,
                                     q.team, team.name, q.team, FALSE)
                ELSE [first(matching) EXCEPT !.team = q.team,
                                             !.team_name = team.name,
                                             !.team_password = q.team]
        IN  /\ q.pc = "add_checked"
            /\ created => nextRegId <= MaxInvitedRegId
            /\ registrations' = (registrations \ matching) \cup {registration}
            /\ nextRegId' = IF created THEN nextRegId + 1 ELSE nextRegId
            /\ requests' = [requests EXCEPT ![c] =
                               [q EXCEPT !.pc = "add_registered",
                                         !.registration = registration.id]]
            /\ UNCHANGED <<teams, members, users, nextTeamId, adminEdits>>

\* TeamMember.objects.get_or_create: the second write of add_member.
AddMemberRow ==
    \E c \in Clients :
        LET q == requests[c]
        IN  /\ q.pc = "add_registered"
            /\ members' =
                   IF \E m \in members : /\ m.team = q.team
                                         /\ m.registration = q.registration
                   THEN members
                   ELSE members \cup {NewTeamMember(q.team, q.registration,
                                                    "pending", "null")}
            /\ requests' = [requests EXCEPT ![c] = Idle]
            /\ UNCHANGED <<registrations, teams, users, nextRegId,
                           nextTeamId, adminEdits>>

\* edit_team_member up to its last check: the duplicate query and the
\* validator for a changed register number.
EditMemberCheck ==
    \E c \in Clients, t \in TeamIds, raw_rn \in RawRegs :
      \E reg \in MemberRegs(t), status \in {""} \cup StatusChoices :
        LET team == TeamById(DB, t)
            register_number == Upper(raw_rn)
            changed == register_number # RegById(DB, reg).register_number
            passes ==
                changed =>
                    /\ ~\E r \in registrations :
                           /\ r.register_number = register_number
                           /\ r.event = team.event
                           /\ r.id # reg
                    /\ validate_event_registration_limit(
                           registrations, register_number, team.event, reg)
                           = "ok"
        IN  /\ requests[c].pc = "idle"
            /\ requests' =
                   IF passes
                   THEN [requests EXCEPT ![c] =
                            [pc |-> "edit_checked", team |-> t,
                             register_number |-> register_number,
                             registration |-> reg, status |-> status]]
                   ELSE requests
            /\ UNCHANGED <<registrations, teams, members, users, nextRegId,
                           nextTeamId, adminEdits>>

\* registration.save(): the first write of edit_team_member.  A violation
\* of unique (register_number, event) ends the request with nothing saved.
EditMemberSaveRegistration ==
    \E c \in Clients :
        LET q == requests[c]
            registration == RegById(DB, q.registration)
            integrity_error ==
                \E r \in registrations :
                    /\ r.id # q.registration
                    /\ r.register_number = q.register_number
                    /\ r.event = registration.event
        IN  /\ q.pc = "edit_checked"
            /\ registrations' =
                   IF integrity_error THEN registrations
                   ELSE (registrations \ {registration}) \cup
                        {[registration EXCEPT
                             !.register_number = q.register_number]}
            /\ requests' = [requests EXCEPT ![c] =
                               IF integrity_error THEN Idle
                               ELSE [q EXCEPT !.pc = "edit_saved"]]
            /\ UNCHANGED <<teams, members, users, nextRegId, nextTeamId,
                           adminEdits>>

\* team_member.save() with the status sent: the second write of
\* edit_team_member.
EditMemberSaveStatus ==
    \E c \in Clients :
        LET q == requests[c]
        IN  /\ q.pc = "edit_saved"
            /\ members' =
                   IF q.status \in StatusChoices
                   THEN {IF m.team = q.team /\ m.registration = q.registration
                         THEN [m EXCEPT !.status = q.status] ELSE m :
                            m \in members}
                   ELSE members
            /\ requests' = [requests EXCEPT ![c] = Idle]
            /\ UNCHANGED <<registrations, teams, users, nextRegId,
                           nextTeamId, adminEdits>>

\* The request ends between its two writes (the second statement raises or
\* the worker is stopped): what the first write saved stays.
RequestInterrupted ==
    \E c \in Clients :
        /\ requests[c].pc \in {"add_registered", "edit_saved"}
        /\ requests' = [requests EXCEPT ![c] = Idle]
        /\ UNCHANGED <<registrations, teams, members, users, nextRegId,
                       nextTeamId, adminEdits>>

TeamConcurrent ==
    \/ FoundTeam
    \/ AddMemberCheck
    \/ AddMemberRegistration
    \/ AddMemberRow
    \/ EditMemberCheck
    \/ EditMemberSaveRegistration
    \/ EditMemberSaveStatus
    \/ RequestInterrupted

SpecTeamConcurrent == Init /\ [][TeamConcurrent]_vars

(***************************************************************************)
(* The maintenance script cleanup_team_lead_violations.py, run on the      *)
(* store.                                                                  *)
(***************************************************************************)
\* A queryset of Registrations as a list: Meta.ordering is -registered_at,
\* the latest id first.
RECURSIVE LatestFirst(_)
LatestFirst(rows) ==
    IF rows = {} THEN <<>>
    ELSE LET r == CHOOSE x \in rows : \A y \in rows : y.id <= x.id
         IN  <<r>> \o LatestFirst(rows \ {r})

\* The inner loop for one team lead over its other Registrations as they
\* were queried: one of the lead's event type is deleted, with its
\* TeamMember rows.  A second TeamMember row makes the loop call delete()
\* on the Registration again, which raises.
RECURSIVE cleanup_others(_, _, _)
cleanup_others(reply, team_lead_reg, other_registrations) ==
    IF other_registrations = <<>> \/ reply.result # "ok" THEN reply
    ELSE LET other_reg == Head(other_registrations)
             team_members ==
                 {m \in reply.db.mems : m.registration = other_reg.id}
             deleted == delete_registration(reply.db, other_reg.id).db
         IN  cleanup_others(
                 IF EventType(other_reg.event) # EventType(team_lead_reg.event)
                 THEN reply
                 ELSE IF Cardinality(team_members) >= 2
                 THEN Reply("crashed", deleted)
                 ELSE Reply("ok", deleted),
                 team_lead_reg, Tail(other_registrations))

\* The outer loop over the team leads as they were queried at the start.
RECURSIVE cleanup_leads(_, _)
cleanup_leads(reply, team_leads) ==
    IF team_leads = <<>> \/ reply.result # "ok" THEN reply
    ELSE LET team_lead_reg == Head(team_leads)
             other_registrations ==
                 LatestFirst({r \in reply.db.regs :
                                 /\ iexact(r.register_number,
                                           team_lead_reg.register_number)
                                 /\ r.id # team_lead_reg.id})
         IN  cleanup_leads(
                 cleanup_others(reply, team_lead_reg, other_registrations),
                 Tail(team_leads))

cleanup_team_lead_violations(db) ==
    cleanup_leads(Reply("ok", db),
                  LatestFirst({r \in db.regs : r.is_team_lead}))

\* The script is run by hand, at any time.
Cleanup ==
    /\ Apply(cleanup_team_lead_violations(DB))
    /\ UNCHANGED <<adminEdits, requests>>

Maintained ==
    \/ Next
    \/ Cleanup

SpecMaintained == Init /\ [][Maintained]_vars

(***************************************************************************)
(* Properties.                                                             *)
(***************************************************************************)
SameType(a, b) == EventType(a) = EventType(b)

TeamRows(t) == {m \in members : m.team = t}

UpperRegs == {Upper(r) : r \in RawRegs}

TeamEvents == {ev \in Events : EventCatalog[ev].is_team_event}

\* C1: after any sequence of validated operations run one at a time from the
\* empty store, a register number (compared ignoring case) has at most one
\* Registration of a technical event and at most one of a non-technical
\* event.  Checked under SpecValidated.
OnePerType ==
    \A r1 \in registrations, r2 \in registrations :
        ( /\ iexact(r1.register_number, r2.register_number)
          /\ SameType(r1.event, r2.event) ) => r1 = r2

\* A person holds a technical and a non-technical Registration, and a second
\* one of either type is refused.
OnePerTypeWitness ==
    \E r1 \in registrations, r2 \in registrations :
        /\ r1.register_number = r2.register_number
        /\ ~SameType(r1.event, r2.event)
        /\ \A ev \in Events :
               validate_event_registration_limit(
                   registrations, r1.register_number, ev, NoId) # "ok"

\* C2: for every store, register number R, candidate event E and optional
\* excluded id X, the validator answers AlreadyRegisteredSameType exactly
\* when a Registration other than X has a register number equal to R
\* ignoring case and an event of E's type, and succeeds otherwise.
SameTypeHeld(R, E, X) ==
    \E r \in registrations : /\ r.id # X
                             /\ iexact(r.register_number, R)
                             /\ SameType(r.event, E)

ValidatorResult ==
    \A R \in AdminRegs, E \in Events, X \in 0..MaxRegId :
        validate_event_registration_limit(registrations, R, E, X) =
            IF SameTypeHeld(R, E, X) THEN "AlreadyRegisteredSameType"
            ELSE "ok"

\* A Registration that blocks its own event unless it is excluded, while an
\* event of the other type stays open to its holder; its register number is
\* held in another case than the one asked about.
ValidatorResultWitness ==
    \E r \in registrations, R \in AdminRegs, E \in Events :
        /\ R # r.register_number
        /\ iexact(R, r.register_number)
        /\ validate_event_registration_limit(registrations, R, r.event, NoId)
               = "AlreadyRegisteredSameType"
        /\ validate_event_registration_limit(registrations, R, r.event, r.id)
               = "ok"
        /\ ~SameType(E, r.event)
        /\ validate_event_registration_limit(registrations, R, E, NoId) = "ok"

\* C3: in every reachable state, edit_registration included, a Registration
\* marked is_team_lead for an event of type T is the only Registration of
\* type T for its register number (here: the very same text, so that two
\* spellings of one number do not count as a conflict).
LeadExclusive ==
    \A r \in registrations, o \in registrations :
        ( /\ r.is_team_lead
          /\ o.id # r.id
          /\ o.register_number = r.register_number )
        => ~SameType(o.event, r.event)

\* C4: at most one Registration per (register number, event), also when two
\* submissions for the same pair run concurrently; a submission of a valid
\* form for a pair that already has a row is answered DuplicateForEvent and
\* leaves the store as it was, and so is the commit of a request in flight
\* whose pair got its row in the meantime.  Checked under SpecConcurrent.
PairHeld(rn, ev) ==
    \E r \in registrations : r.register_number = rn /\ r.event = ev

Rejected(reply) == reply.result = "DuplicateForEvent" /\ reply.db = DB

\* No invited member, or one.
InvitedLists == {<<>>} \cup {<<e>> : e \in RawRegs}

OnePerEvent ==
    /\ \A r1 \in registrations, r2 \in registrations :
           ( /\ r1.register_number = r2.register_number
             /\ r1.event = r2.event ) => r1 = r2
    /\ \A raw_rn \in RawRegs, ev \in Events :
           PairHeld(Upper(raw_rn), ev)
           => \A team_name \in TeamNameInputs(ev), password \in Passwords :
                \A data \in InvitedLists :
                    Rejected(register_valid(DB, raw_rn, ev, team_name,
                                            password, data))
    /\ \A c \in Clients :
           ( /\ requests[c].pc = "validated"
             /\ PairHeld(requests[c].register_number, requests[c].event) )
           => Rejected(register_commit(DB, requests[c].register_number,
                                       requests[c].event,
                                       requests[c].team_name, <<>>))

\* A request has passed the duplicate check and the validator, and the pair
\* it is about to insert has meanwhile been committed by the other client.
OnePerEventWitness ==
    \E c \in Clients :
        /\ requests[c].pc = "validated"
        /\ PairHeld(requests[c].register_number, requests[c].event)

\* C5: in every reachable state every Team has total_count, rows of any
\* status and the founder's included, at most its event's max_team_size.
CapacityInvariant ==
    \A t \in teams :
        total_count(members, t.id) <= EventCatalog[t.event].max_team_size

\* C6: add_member on a team whose TeamMember rows, of any status, number at
\* least the event's max_team_size answers TeamFull for every candidate whose
\* fields are filled in, eligible or not, and creates no row.
TeamFullAlways ==
    \A t \in teams, raw_rn \in RawRegs :
        Cardinality(TeamRows(t.id)) >= EventCatalog[t.event].max_team_size
        => /\ add_member(DB, t.id, raw_rn, TRUE).result = "TeamFull"
           /\ add_member(DB, t.id, raw_rn, TRUE).db = DB

\* A full team that counts a pending row, and a candidate the validator
\* would let in.
TeamFullAlwaysWitness ==
    \E t \in teams, raw_rn \in RawRegs :
        /\ Cardinality(TeamRows(t.id)) >= EventCatalog[t.event].max_team_size
        /\ \E m \in TeamRows(t.id) : m.status = "pending"
        /\ validate_event_registration_limit(
               registrations, Upper(raw_rn), t.event, NoId) = "ok"

\* C7: right after a team-creating submission has created its team, before
\* any invited member is processed, the team's total_count and member_count
\* are 1: its only TeamMember is the founder's, status joined; created_by is
\* the founder's Registration, which is marked is_team_lead and refers to
\* the team.
FoundedTeam ==
    \A rn \in UpperRegs, ev \in TeamEvents, team_name \in TeamNames :
        LET db == team_founded(DB, rn, ev, team_name)
            tid == nextTeamId
            rid == nextRegId
            rows == {m \in db.mems : m.team = tid}
        IN  /\ total_count(db.mems, tid) = 1
            /\ member_count(db.mems, tid) = 1
            /\ \A m \in rows : m.registration = rid /\ m.status = "joined"
            /\ TeamById(db, tid).created_by = rid
            /\ RegById(db, rid).register_number = rn
            /\ RegById(db, rid).is_team_lead
            /\ RegById(db, rid).team = tid

\* A team as a submission with no invited member has left it.
FoundedTeamWitness ==
    \E t \in teams :
        /\ TeamRows(t.id) =
               {NewTeamMember(t.id, t.created_by, "joined", "null")}
        /\ \E r \in registrations : /\ r.id = t.created_by
                                    /\ r.is_team_lead
                                    /\ r.team = t.id

\* C8: create_team succeeds whenever the event is a team event, the team
\* name is free for it and the founder's Registration for the event is the
\* founder's only one of that type: it creates the Team and the founder's
\* joined TeamMember and marks the Registration as team lead.
CreateTeamSucceeds ==
    \A f \in registrations, team_name \in TeamNames :
        ( /\ EventCatalog[f.event].is_team_event
          /\ ~\E t \in teams : t.name = team_name /\ t.event = f.event
          /\ ~SameTypeHeld(f.register_number, f.event, f.id) )
        => LET reply == create_team(DB, f.event, FALSE, f.register_number,
                                    team_name)
           IN  /\ reply.result = "ok"
               /\ \E t \in reply.db.teams :
                      /\ t.name = team_name
                      /\ t.event = f.event
                      /\ t.created_by = f.id
                      /\ NewTeamMember(t.id, f.id, "joined", "null")
                             \in reply.db.mems
               /\ RegById(reply.db, f.id).is_team_lead

\* C9: removing the founder's own TeamMember is answered CannotRemoveLead
\* and leaves the TeamMember rows as they were, through team_add_members,
\* team_dashboard and remove_team_member alike.
FounderRows ==
    {m \in members : \E t \in teams : /\ m.team = t.id
                                      /\ m.registration = t.created_by}

Refused(reply) == reply.result = "CannotRemoveLead" /\ reply.db.mems = members

FounderNeverRemoved ==
    \A m \in FounderRows :
        /\ Refused(remove_member(DB, m.team, m.registration))
        /\ Refused(team_dashboard_remove_member(DB, m.team, m.registration))
        /\ Refused(remove_team_member(DB, m.team, m.registration))

\* C10: accept_team_invite by the holder of a pending TeamMember makes it
\* joined with joined_at set, decline_team_invite makes it declined with
\* joined_at null; no other TeamMember and no Registration changes.
InviteRoundTrip ==
    \A m \in members :
        m.status = "pending"
        => LET username == RegById(DB, m.registration).register_number
               accepted == accept_team_invite(DB, m.team, username).db
               declined == decline_team_invite(DB, m.team, username).db
           IN  /\ accepted.mems = (members \ {m}) \cup
                      {[m EXCEPT !.status = "joined", !.joined_at = "now"]}
               /\ accepted.regs = registrations
               /\ declined.mems = (members \ {m}) \cup
                      {[m EXCEPT !.status = "declined", !.joined_at = "null"]}
               /\ declined.regs = registrations

\* C11: accept_team_invite and decline_team_invite act only on a pending
\* TeamMember: for the holder of a joined row accept answers AlreadyMember
\* (a success that changes nothing) and decline answers NotPending, for the
\* holder of a declined row accept answers Declined and decline answers
\* NotPending; none of the four changes a TeamMember row.
InviteOnlyFromPending ==
    \A m \in members :
        m.status # "pending"
        => LET username == RegById(DB, m.registration).register_number
               accepted == accept_team_invite(DB, m.team, username)
               declined == decline_team_invite(DB, m.team, username)
           IN  /\ accepted.result =
                      IF m.status = "joined" THEN "AlreadyMember"
                                             ELSE "Declined"
               /\ accepted.db.mems = members
               /\ declined.result = "NotPending"
               /\ declined.db.mems = members

\* C12: finalize answers BelowMinimum exactly when the team's joined rows
\* are fewer than the event's min_team_size, otherwise AboveMaximum exactly
\* when all its rows are more than max_team_size, otherwise it succeeds; it
\* changes no row.
JoinedRows(t) == {m \in TeamRows(t) : m.status = "joined"}

LinkedMember(db, r, t, rn, team_name) ==
    /\ r \in db.regs
    /\ r.register_number = rn
    /\ r.event = t.event
    /\ r.team = t.id
    /\ r.team_name = team_name
    /\ r.team_password = t.id
    /\ r.is_team_lead = FALSE

PendingRow(t, reg) ==
    [team |-> t, registration |-> reg, status |-> "pending",
     joined_at |-> "null"]

AddMemberCreates ==
    /\ \A t \in teams, raw_rn \in RawRegs :
           LET reply == add_member(DB, t.id, raw_rn, TRUE)
           IN  reply.result = "ok"
               => /\ members \subseteq reply.db.mems
                  /\ \E r \in reply.db.regs :
                         /\ reply.db.mems \ members = {PendingRow(t.id, r.id)}
                         /\ LinkedMember(reply.db, r, t, Upper(raw_rn), t.name)
                  /\ total_count(reply.db.mems, t.id) =
                         total_count(members, t.id) + 1
                  /\ member_count(reply.db.mems, t.id) =
                         member_count(members, t.id)
    /\ \A raw_rn \in RawRegs, ev \in Events, team_name \in TeamNames,
          entry \in RawRegs :
           LET reply == register_valid(DB, raw_rn, ev, team_name, "pw",
                                       <<entry>>)
           IN  (reply.result = "ok" /\ reply.outcomes = <<"added">>)
               => \E t \in reply.db.teams \ teams, r \in reply.db.regs :
                      /\ {m \in reply.db.mems : m.status = "pending"} \ members
                             = {PendingRow(t.id, r.id)}
                      /\ LinkedMember(reply.db, r, t, Upper(entry), team_name)
                      /\ total_count(reply.db.mems, t.id) = 2
                      /\ member_count(reply.db.mems, t.id) = 1

\* A team with room and a candidate whom add_member accepts.
AddMemberCreatesWitness ==
    \E t \in teams, raw_rn \in RawRegs :
        /\ add_member(DB, t.id, raw_rn, TRUE).result = "ok"
        /\ total_count(add_member(DB, t.id, raw_rn, TRUE).db.mems, t.id) = 2

\* C14: add_member succeeds for a register number that holds a Registration
\* for the team's event but no TeamMember of the team (a solo registrant of
\* the event, or a member whose row was removed), while the team has room:
\* it reuses that Registration, stamps it with the team's reference and name
\* and creates a pending TeamMember for it.
ReAddSucceeds ==
    \A t \in teams, r \in registrations :
        ( /\ r.event = t.event
          /\ ~\E m \in members : m.team = t.id /\ m.registration = r.id
          /\ Cardinality(TeamRows(t.id)) < EventCatalog[t.event].max_team_size )
        => LET reply == add_member(DB, t.id, r.register_number, TRUE)
           IN  /\ reply.result = "ok"
               /\ reply.db.mems = members \cup {PendingRow(t.id, r.id)}
               /\ \E r2 \in reply.db.regs : /\ r2.id = r.id
                                            /\ r2.team = t.id
                                            /\ r2.team_name = t.name

\* C15: register is all-or-nothing for its founding rows: a submission that
\* does not succeed leaves the Registration, Team and TeamMember rows as
\* they were, and a team-creating submission that succeeds has persisted
\* its Registration, its Team and the founder's TeamMember together.
Creating(ev, team_name) == EventCatalog[ev].is_team_event /\ team_name # ""

SameRows(db) ==
    /\ db.regs = registrations
    /\ db.teams = teams
    /\ db.mems = members

Founded(db, rn) ==
    \E t \in db.teams \ teams, r \in db.regs \ registrations :
        /\ db.teams \ teams = {t}
        /\ t.created_by = r.id
        /\ r.register_number = rn
        /\ r.team = t.id
        /\ r.is_team_lead
        /\ \E m \in db.mems \ members : /\ m.team = t.id
                                        /\ m.registration = r.id

SubmitAllOrNothing ==
    \A raw_rn \in RawRegs, ev \in Events, password \in Passwords,
       team_member_count \in TeamMemberCounts, payload \in Payloads :
        \A team_name \in TeamNameInputs(ev) :
            LET reply == register(DB, raw_rn, ev, team_name, password,
                                  team_member_count, payload)
            IN  /\ reply.result # "ok" => SameRows(reply.db)
                /\ (reply.result = "ok" /\ Creating(ev, team_name))
                       => Founded(reply.db, Upper(raw_rn))
                /\ (reply.result = "ok" /\ ~Creating(ev, team_name))
                       => /\ reply.db.teams = teams
                          /\ reply.db.mems = members

\* A store in which one team-creating submission fails inside the
\* transaction, after its Registration was saved (the team name is taken),
\* and another one succeeds.
SubmitAllOrNothingWitness ==
    /\ \E raw_rn \in RawRegs, ev \in Events, team_name \in TeamNames :
           /\ \E t \in teams : t.name = team_name /\ t.event = ev
           /\ validate_event_registration_limit(
                  registrations, Upper(raw_rn), ev, NoId) = "ok"
           /\ register(DB, raw_rn, ev, team_name, "pw", NoCount,
                       BlankPayload).result = "DuplicateForEvent"
    /\ \E r \in registrations : r.is_team_lead

\* C16: in a team-creating submission that succeeds with no member list, no
\* entry of the raw member list aborts it: with any team_members payload the
\* submission still succeeds and persists the founder's Registration and
\* the Team, every entry of the parsed list ends in exactly one outcome
\* among added, already-in-team and skipped, and the new TeamMember rows are
\* the founder's and one per added entry.
Added(outcomes) == {i \in DOMAIN outcomes : outcomes[i] = "added"}

MemberFailuresPartial ==
    \A raw_rn \in RawRegs, ev \in Events, team_name \in TeamNames,
       payload \in Payloads :
        ( /\ Creating(ev, team_name)
          /\ register(DB, raw_rn, ev, team_name, "pw", NoCount,
                      BlankPayload).result = "ok" )
        => LET reply == register(DB, raw_rn, ev, team_name, "pw", NoCount,
                                 payload)
           IN  /\ reply.result = "ok"
               /\ Founded(reply.db, Upper(raw_rn))
               /\ Len(reply.outcomes) = Len(parse_team_members(payload))
               /\ \A i \in DOMAIN reply.outcomes :
                      reply.outcomes[i] \in {"added", "already", "skipped"}
               /\ Cardinality(reply.db.mems \ members) =
                      1 + Cardinality(Added(reply.outcomes))

\* C17: joined_at is stamped on every entry into joined: in every reachable
\* store, every TeamMember whose status is joined (the founder's row and the
\* rows moved to joined by a view) has a joined_at that is not null.
JoinedAtStamped ==
    \A m \in members : m.status = "joined" => m.joined_at # "null"

\* C18: the transition to joined is taken only from pending: neither
\* accept_team_invite by its holder nor team_dashboard approve_member
\* changes a TeamMember whose status is declined.
JoinedOnlyFromPending ==
    \A m \in members :
        m.status = "declined"
        => LET username == RegById(DB, m.registration).register_number
           IN  /\ accept_team_invite(DB, m.team, username).db.mems = members
               /\ approve_member(DB, m.team, m.registration).db.mems = members

\* C19: the identity step of register creates the user for the register
\* number when there is none and fetches it when there is one, with or
\* without a password: a valid submission that is not a duplicate for its
\* event never ends in IdentityError, and the user exists afterwards.
IdentityCreatedOrFetched ==
    \A raw_rn \in RawRegs, ev \in Events, password \in Passwords :
        \A team_name \in TeamNameInputs(ev) :
            ( /\ FormValid(ev, team_name, password, NoCount)
              /\ ~\E r \in registrations :
                     /\ iexact(r.register_number, raw_rn)
                     /\ r.event = ev )
            => LET reply == register(DB, raw_rn, ev, team_name, password,
                                     NoCount, BlankPayload)
               IN  /\ reply.result # "IdentityError"
                   /\ \E u \in reply.db.users : iexact(u, raw_rn)

\* C20: a team-creating submission whose team name is already used by a
\* Team of the event, and that passes the duplicate, identity and
\* eligibility steps, fails with TeamNameTaken and persists no Registration,
\* Team or TeamMember.
TeamNameTakenReported ==
    \A raw_rn \in RawRegs, ev \in Events, team_name \in TeamNames,
       data \in InvitedLists :
        ( /\ Creating(ev, team_name)
          /\ \E t \in teams : t.name = team_name /\ t.event = ev
          /\ ~\E r \in registrations :
                 /\ iexact(r.register_number, raw_rn)
                 /\ r.event = ev
          /\ validate_event_registration_limit(
                 registrations, Upper(raw_rn), ev, NoId) = "ok" )
        => LET reply == register_valid(DB, raw_rn, ev, team_name, "pw", data)
           IN  /\ reply.result = "TeamNameTaken"
               /\ SameRows(reply.db)

\* C21: edit_team_member with a changed register number fails and leaves
\* the store as it was when another Registration of the team's event has
\* the new number, or when the validator, run with the member's own
\* Registration excluded, refuses the new number; with an unchanged register
\* number the edit is applied: the Registration keeps its number and the
\* TeamMember takes the status sent.
EditChecksNewNumber ==
    \A m \in members, raw_rn \in RawRegs, status \in StatusChoices \cup {""} :
        LET reply == edit_team_member(DB, m.team, m.registration, raw_rn,
                                      status, TRUE)
            own == RegById(DB, m.registration)
            team == TeamById(DB, m.team)
            taken == \E r \in registrations :
                         /\ r.id # own.id
                         /\ r.register_number = Upper(raw_rn)
                         /\ r.event = team.event
            refused == \E r \in registrations :
                           /\ r.id # own.id
                           /\ iexact(r.register_number, raw_rn)
                           /\ EventType(r.event) = EventType(team.event)
        IN  IF Upper(raw_rn) # own.register_number
            THEN (taken \/ refused)
                     => reply.result # "ok" /\ reply.db = DB
            ELSE /\ reply.result = "ok"
                 /\ reply.db.regs = registrations
                 /\ reply.db.mems =
                        (members \ {m}) \cup
                        {[m EXCEPT !.status = IF status = "" THEN m.status
                                              ELSE status]}

\* A member whose new register number is free in the team's event but is
\* held by a Registration of the same type in another event: the edit is
\* refused by the validator alone.
EditChecksNewNumberWitness ==
    \E m \in members, raw_rn \in RawRegs :
        /\ Upper(raw_rn) # RegById(DB, m.registration).register_number
        /\ ~\E r \in registrations :
               /\ r.register_number = Upper(raw_rn)
               /\ r.event = TeamById(DB, m.team).event
        /\ edit_team_member(DB, m.team, m.registration, raw_rn, "", TRUE).result
               = "AlreadyRegisteredSameType"

\* C22: delete_registration of a team lead's Registration is no cascade: it
\* deletes neither the Team that Registration founded nor the TeamMember
\* rows of that team that belong to other Registrations.
LeadDeleteKeepsTeam ==
    \A t \in teams :
        t.created_by # NoId
        => LET reply == delete_registration(DB, t.created_by)
           IN  /\ \E t2 \in reply.db.teams : t2.id = t.id
               /\ {m \in TeamRows(t.id) : m.registration # t.created_by}
                      \subseteq reply.db.mems

\* C23: two register requests for one register number and two different
\* events of one event type, both past the eligibility check of the atomic
\* block before either has committed and neither with a team name that is
\* taken, both commit: each Registration is persisted, and the register
\* number then holds two Registrations of that type.
SameTypeOf(db, rn, type) ==
    {r \in db.regs : iexact(r.register_number, rn) /\ EventType(r.event) = type}

\* The request founds no team, or its team name is free for its event.
NameFree(q) ==
    ~\E t \in teams : t.name = q.team_name /\ t.event = q.event

CrossEventRace ==
    \A c1 \in Clients : \A c2 \in Clients \ {c1} :
        LET q1 == requests[c1]
            q2 == requests[c2]
        IN  ( /\ q1.pc = "validated"
              /\ q2.pc = "validated"
              /\ iexact(q1.register_number, q2.register_number)
              /\ q1.event # q2.event
              /\ EventType(q1.event) = EventType(q2.event)
              /\ SameTypeOf(DB, q1.register_number, EventType(q1.event)) = {}
              /\ NameFree(q1)
              /\ NameFree(q2) )
            => LET first_commit ==
                       register_commit(DB, q1.register_number, q1.event,
                                       q1.team_name, <<>>)
                   second_commit ==
                       register_commit(first_commit.db, q2.register_number,
                                       q2.event, q2.team_name, <<>>)
               IN  /\ first_commit.result = "ok"
                   /\ second_commit.result = "ok"
                   /\ Cardinality(SameTypeOf(second_commit.db,
                                             q1.register_number,
                                             EventType(q1.event))) = 2

\* Both requests have committed: one register number holds two
\* Registrations of one event type, for different events.
CrossEventRaceWitness ==
    \E r1 \in registrations, r2 \in registrations :
        /\ r1.id # r2.id
        /\ iexact(r1.register_number, r2.register_number)
        /\ r1.event # r2.event
        /\ EventType(r1.event) = EventType(r2.event)
        /\ \A c \in Clients : requests[c].pc = "idle"

\* C24: add_member and edit_team_member are atomic units: once no request
\* is in flight, no team holds more TeamMember rows than its event's
\* max_team_size (two adds into one free slot do not both commit) and every
\* Registration that carries a team reference has its TeamMember row in
\* that team (the Registration and the TeamMember of an add are written
\* together or not at all).
Quiescent == \A c \in Clients : requests[c].pc = "idle"

TeamOperationsAtomic ==
    Quiescent
    => /\ \A t \in teams :
              Cardinality(TeamRows(t.id)) <=
                  EventCatalog[t.event].max_team_size
       /\ \A r \in registrations :
              r.team # NoId
              => \E m \in members : /\ m.team = r.team
                                    /\ m.registration = r.id

\* C25: the validator never answers LeadConflict: for every register
\* number, event and excluded Registration, a same-type Registration of the
\* register number that is a team lead is itself counted, so the answer is
\* AlreadyRegisteredSameType.
ValidatorInputs == RawRegs \cup {Upper(rn) : rn \in RawRegs}

NoLeadConflict ==
    \A rn \in ValidatorInputs, ev \in Events \cup {NoEvent},
       exclude_id \in 0..MaxRegId :
        LET verdict == validate_event_registration_limit(
                           registrations, rn, ev, exclude_id)
        IN  /\ verdict # "LeadConflict"
            /\ ( /\ ev # NoEvent
                 /\ \E r \in registrations :
                        /\ iexact(r.register_number, rn)
                        /\ r.id # exclude_id
                        /\ r.is_team_lead
                        /\ EventType(r.event) = EventType(ev) )
               => verdict = "AlreadyRegisteredSameType"

\* A team lead asks for another event of the type of the event it leads.
NoLeadConflictWitness ==
    \E r \in registrations, ev \in Events :
        /\ r.is_team_lead
        /\ ev # r.event
        /\ EventType(ev) = EventType(r.event)
        /\ validate_event_registration_limit(
               registrations, r.register_number, ev, NoId)
               = "AlreadyRegisteredSameType"

\* C26: add_team_member, for a team with free capacity and a register
\* number that holds a Registration for the team's event and no TeamMember
\* of the team, creates a pending TeamMember for that Registration.
InviteRegistered ==
    \A t \in teams, r \in registrations :
        ( /\ r.event = t.event
          /\ ~\E m \in members : m.team = t.id /\ m.registration = r.id
          /\ Cardinality(TeamRows(t.id)) < EventCatalog[t.event].max_team_size )
        => LET reply == add_team_member(DB, t.id, r.register_number)
           IN  /\ reply.result = "ok"
               /\ reply.db.mems = members \cup {PendingRow(t.id, r.id)}

\* C27: the founder stays a joined member: in every reachable store, every
\* Team has a TeamMember row for its created_by Registration, and that
\* row's status is joined.
FounderStaysJoined ==
    \A t \in teams :
        \E m \in members : /\ m.team = t.id
                           /\ m.registration = t.created_by
                           /\ m.status = "joined"

\* C28: the lead flag matches founding: a Registration has is_team_lead
\* exactly when some Team has it as created_by, and no Registration is
\* created_by of two Teams.  It holds in every store reached through the
\* validated operations, and in every store a register or a create_team
\* makes of such a store.
LeadMatchesFounding(db) ==
    /\ \A r \in db.regs :
           r.is_team_lead <=> \E t \in db.teams : t.created_by = r.id
    /\ \A t1 \in db.teams, t2 \in db.teams :
           t1.created_by = t2.created_by => t1.id = t2.id

LeadFlagMatches ==
    /\ LeadMatchesFounding(DB)
    /\ \A raw_rn \in RawRegs, ev \in Events, data \in InvitedLists :
         \A team_name \in TeamNameInputs(ev) :
           /\ LeadMatchesFounding(
                  register_valid(DB, raw_rn, ev, team_name, "pw", data).db)
           /\ \A is_admin \in BOOLEAN :
                  LeadMatchesFounding(
                      create_team(DB, ev, is_admin, raw_rn, team_name).db)

\* A team with its lead and an invited member who is none, and a second
\* team that a register would found beside it.
LeadFlagMatchesWitness ==
    /\ \E t \in teams, r1 \in registrations, r2 \in registrations :
           /\ t.created_by = r1.id
           /\ r1.is_team_lead
           /\ r2.team = t.id
           /\ ~r2.is_team_lead
    /\ \E raw_rn \in RawRegs, ev \in Events, team_name \in TeamNames :
           Cardinality(register_valid(DB, raw_rn, ev, team_name, "pw",
                                      <<>>).db.teams) = 2

\* C29: the two membership representations agree: in every reachable store
\* a Registration's team reference is a Team exactly when a TeamMember row
\* of that Team and that Registration exists.
MembershipAgrees ==
    \A r \in registrations, t \in teams :
        r.team = t.id <=> \E m \in members : /\ m.team = t.id
                                             /\ m.registration = r.id

\* C30: the cleanup script, run on any store, ends with no team-lead
\* Registration whose register number holds another Registration of the
\* same event type, and it deletes no team lead: every Registration that
\* was is_team_lead before the run exists after it.
CleanupKeepsLeads ==
    LET reply == cleanup_team_lead_violations(DB)
    IN  /\ reply.result = "ok"
        /\ \A l \in reply.db.regs :
               l.is_team_lead
               => ~\E r \in reply.db.regs :
                      /\ r.id # l.id
                      /\ iexact(r.register_number, l.register_number)
                      /\ EventType(r.event) = EventType(l.event)
        /\ \A l \in registrations :
               l.is_team_lead => \E r \in reply.db.regs : r.id = l.id

====
